---- MODULE Spec2Model ----
(***************************************************************************)
(* JiraQuery defect metrics: the status mapping (cfg_mappings.py), the     *)
(* change-log scan that builds a defect's timeline (jira_client.py), the   *)
(* reduced state summary of a Bug (bug_model.py) and the bounce analysis   *)
(* and report (bouncemetrics.py).                                          *)
(*                                                                         *)
(* Five specifications share the variables below:                          *)
(*   SpecCount    Bug.states_unique_summary and defect_bounce_count on     *)
(*                every canonical sequence up to MaxLen                    *)
(*   SpecTimeline JiraClient._parse_change_log, one audit item per step    *)
(*   SpecBounce   BounceMetrics.find_bounces followed by build_report,     *)
(*                one source statement group per step                      *)
(*   SpecDefect   one issue end to end: _decompose_bug_entry on a given    *)
(*                audit log, then the find_bounces iteration of the Bug    *)
(*   SpecMain     main's loop over the pillars of a run                    *)
(* A specification leaves the variables it does not use at their idle      *)
(* value.                                                                  *)
(***************************************************************************)
EXTENDS Integers, Sequences, FiniteSets, TLC

VARIABLES
    \* ---- SpecCount
    fpc,              \* position: "idle" | "start" | "reduced" | "counted"
    states_summary,   \* Bug._states_summary, the canonical list (may hold None)
    transition_list,  \* defect_bounce_count: bug_obj.states_unique_summary
    count,            \* defect_bounce_count: its return value
    \* ---- SpecTimeline
    ppc,              \* position in _parse_change_log / _decompose_bug_entry
    mapping,          \* JiraClient.mapping, the ConfigFileType object
    create_time,      \* the defect's creation time
    change_log,       \* shape of change_log_json: "null" | "nokey" | "histories"
    state_changes,    \* _parse_change_log: the list of State tuples
    chg,              \* the history entry being scanned
    nchg,             \* history entries read so far
    nread,            \* audit items read so far
    parsed,           \* the tuple _parse_change_log returned
    bug,              \* the Bug built from it
    \* ---- SpecBounce
    bpc,              \* position in find_bounces / build_report
    dates,            \* BounceMetrics.dates
    pidx,             \* find_bounces: projects entered so far
    fetched,          \* find_bounces: defects read so far, per project
    defect,           \* find_bounces: the defect of the current iteration
    summary,          \* find_bounces: summary, then BounceMetrics.summary
    bounced,          \* find_bounces: bounced, then BounceMetrics.bounces
    before,           \* summary and bounced of the project when `defect` was read
    error,            \* the exception that left the constructor, or "none"
    ridx,             \* build_report: summary items visited so far
    percentage,       \* build_report: percentage of the current project
    report,           \* build_report: the per-project lines appended so far
    \* ---- SpecDefect
    dpc,              \* position in JiraClient.query / _decompose_bug_entry
    bug_entry,        \* the issue the tracker returned, with its change log
    \* ---- SpecMain
    mpc,              \* position in main
    pillar_idx,       \* main: pillars of pillar_list entered so far
    pillar_files,     \* the mapping file as each pillar of the run finds it
    cfg_map,          \* main: cfg_map, the pillar's ConfigFileType
    defects,          \* main: defects, what get_jira_data returned
    written,          \* the pillars whose report write_report wrote, in order
    main_error        \* the exception that left main, or "none"

countVars == <<fpc, states_summary, transition_list, count>>

timelineVars ==
    <<ppc, mapping, create_time, change_log, state_changes, chg, nchg, nread,
      parsed, bug>>

bounceVars ==
    <<bpc, dates, pidx, fetched, defect, summary, bounced, before, error, ridx,
      percentage, report>>

defectVars == <<dpc, bug_entry>>

mainVars ==
    <<mpc, pillar_idx, pillar_files, cfg_map, defects, written, main_error>>

vars == <<countVars, timelineVars, bounceVars, defectVars, mainVars>>

-----------------------------------------------------------------------------
(* Values *)

\* Python's None. No label or state name of the model is this string.
None == "<None>"

\* BounceMetricConstants
SLA_LIMIT == 2
CLOSED == "closed"
OPEN == "open"
TEST == "test"

\* str.lower() on the strings of the model: state names as a configuration
\* may spell them, and status labels as the tracker reports them.
Lower(s) ==
    CASE s = "Open" -> "open"
      [] s = "OPEN" -> "open"
      [] s = "Test" -> "test"
      [] s = "TEST" -> "test"
      [] s = "Closed" -> "closed"
      [] s = "New" -> "new"
      [] s = "In Progress" -> "in progress"
      [] s = "In Test" -> "in test"
      [] s = "Reopened" -> "reopened"
      [] s = "Done" -> "done"
      [] s = "Blocked" -> "blocked"
      [] s = "Status" -> "status"
      [] s = "STATUS" -> "status"
      [] s = "None" -> "none"
      [] OTHER -> s

\* str(x): None prints as "None", a string is itself.
Str(x) == IF x = None THEN "None" ELSE x

\* The sequences over S of length 0..n.
SeqUpTo(S, n) == UNION {[1..k -> S] : k \in 0..n}

\* SpecCount's variables while another specification runs.
IdleCount ==
    /\ fpc = "idle"
    /\ states_summary = <<>>
    /\ transition_list = <<>>
    /\ count = 0

-----------------------------------------------------------------------------
(* Bug.states_unique_summary *)

RECURSIVE ReduceLoopKeepPrevious(_, _, _)
ReduceLoopKeepPrevious(rest, previous, reduced_unique) ==
    IF rest = <<>> THEN reduced_unique
    ELSE LET state == Head(rest) IN
         ReduceLoopKeepPrevious(
             Tail(rest), previous,
             IF state # previous THEN Append(reduced_unique, state)
             ELSE reduced_unique)

\* Mutant: `previous = state` is dropped, so every state is compared with None.
states_unique_summary_keep_previous(stored) ==
    ReduceLoopKeepPrevious(stored, None, <<>>)

\* for state in self._states_summary: append when state != previous;
\* previous = state
RECURSIVE ReduceLoop(_, _, _)
ReduceLoop(rest, previous, reduced_unique) ==
    IF rest = <<>> THEN reduced_unique
    ELSE LET state == Head(rest) IN
         ReduceLoop(
             Tail(rest), state,
             IF state # previous THEN Append(reduced_unique, state)
             ELSE reduced_unique)

\* Mutant: the scan starts with a marker no state equals, so a null at the
\* head of the list is kept.
states_unique_summary_keep_leading_null(stored) ==
    ReduceLoop(stored, "<no previous>", <<>>)

states_unique_summary(stored) ==
    ReduceLoop(stored, None, <<>>)

-----------------------------------------------------------------------------
(* BounceMetrics.defect_bounce_count *)

\* The test of lines 121-123 on the pair at Python index `index`.
IsBouncePair(tl, index) ==
    LET current_state == tl[index + 1]
        next_state == tl[index + 2]
    IN  /\ current_state # None
        /\ next_state # None
        /\ Lower(current_state) = TEST
        /\ Lower(next_state) = OPEN

\* for index in range(num_transistions)
RECURSIVE CountLoop(_, _, _, _)
CountLoop(tl, index, stop, acc) ==
    IF index >= stop THEN acc
    ELSE CountLoop(tl, index + 1, stop,
                   IF IsBouncePair(tl, index) THEN acc + 1 ELSE acc)

\* Mutant: the scan stops one pair early, range(num_transistions - 1).
defect_bounce_count_skip_last(tl) ==
    LET num_transistions == Len(tl) - 1 IN
    IF num_transistions > 2 THEN CountLoop(tl, 0, num_transistions - 1, 0) ELSE 0

\* Mutant: the states are compared without .lower().
RECURSIVE CountLoopCaseSensitive(_, _, _, _)
CountLoopCaseSensitive(tl, index, stop, acc) ==
    IF index >= stop THEN acc
    ELSE CountLoopCaseSensitive(
             tl, index + 1, stop,
             IF tl[index + 1] = TEST /\ tl[index + 2] = OPEN THEN acc + 1 ELSE acc)

defect_bounce_count_case_sensitive(tl) ==
    LET num_transistions == Len(tl) - 1 IN
    IF num_transistions > 2
    THEN CountLoopCaseSensitive(tl, 0, num_transistions, 0) ELSE 0

\* Mutant: a pair that is no bounce sets the count back to 0.
RECURSIVE CountLoopResetOnMiss(_, _, _, _)
CountLoopResetOnMiss(tl, index, stop, acc) ==
    IF index >= stop THEN acc
    ELSE CountLoopResetOnMiss(tl, index + 1, stop,
                              IF IsBouncePair(tl, index) THEN acc + 1 ELSE 0)

defect_bounce_count_reset_on_miss(tl) ==
    LET num_transistions == Len(tl) - 1 IN
    IF num_transistions > 2
    THEN CountLoopResetOnMiss(tl, 0, num_transistions, 0) ELSE 0

\* Mutant: every pair that leaves test counts, whatever state follows.
RECURSIVE CountLoopLeavingTest(_, _, _, _)
CountLoopLeavingTest(tl, index, stop, acc) ==
    IF index >= stop THEN acc
    ELSE CountLoopLeavingTest(
             tl, index + 1, stop,
             IF tl[index + 1] # None /\ Lower(tl[index + 1]) = TEST
             THEN acc + 1 ELSE acc)

defect_bounce_count_leaving_test(tl) ==
    LET num_transistions == Len(tl) - 1 IN
    IF num_transistions > 2
    THEN CountLoopLeavingTest(tl, 0, num_transistions, 0) ELSE 0

defect_bounce_count(tl) ==
    LET num_transistions == Len(tl) - 1 IN
    IF num_transistions > 2 THEN CountLoop(tl, 0, num_transistions, 0) ELSE 0

-----------------------------------------------------------------------------
(* Python dicts as functions; dict.get gives None for a missing key *)

EmptyDict == <<>>

DictPut(d, k, v) == [x \in (DOMAIN d) \cup {k} |-> IF x = k THEN v ELSE d[x]]

DictGet(d, k) == IF k \in DOMAIN d THEN d[k] ELSE None

\* dict(pairs) laid over d, a later pair replacing an earlier one: d.update.
RECURSIVE DictUpdate(_, _)
DictUpdate(d, pairs) ==
    IF pairs = <<>> THEN d
    ELSE DictUpdate(DictPut(d, Head(pairs)[1], Head(pairs)[2]), Tail(pairs))

-----------------------------------------------------------------------------
(* cfg_mappings.py: the mapping file and the YamlFile built from it *)

\* The pillar the client works for.
Pillar == "qe"

\* The `states` section of the pillar: canonical state -> list of aliases,
\* in file order.
StatesSection(new_aliases, open_key, open_aliases, test_key, test_aliases) ==
    << <<"new", new_aliases>>,
       <<open_key, open_aliases>>,
       <<test_key, test_aliases>>,
       <<"closed", <<"done", "closed">> >> >>

StandardOrder == <<"new", "open", "test", "closed">>

\* The configuration of the specification's example, `new` its own alias.
StandardFile ==
    [exists |-> TRUE, has_order |-> TRUE, order |-> StandardOrder,
     states |-> StatesSection(<<"new">>, "open", <<"in progress", "reopened">>,
                              "test", <<"in test">>)]

\* order[0] is not listed among its own aliases.
CreatedAliasFile ==
    [StandardFile EXCEPT
        !.states = StatesSection(<<"created">>, "open",
                                 <<"in progress", "reopened">>,
                                 "test", <<"in test">>)]

\* "none" and the empty string are aliases of open.
NoneAliasFile ==
    [StandardFile EXCEPT
        !.states = StatesSection(<<"new">>, "open",
                                 <<"in progress", "reopened", "none", "">>,
                                 "test", <<"in test">>)]

\* "reopened" is listed under open and under test.
DoubleAliasFile ==
    [StandardFile EXCEPT
        !.states = StatesSection(<<"new">>, "open",
                                 <<"in progress", "reopened">>,
                                 "test", <<"in test", "reopened">>)]

\* The canonical names are capitalised in the file.
CapitalFile ==
    [StandardFile EXCEPT
        !.order = <<"new", "Open", "Test", "closed">>,
        !.states = StatesSection(<<"new">>, "Open",
                                 <<"in progress", "reopened">>,
                                 "Test", <<"in test">>)]

\* The pillar has no `order` key.
NoOrderFile == [StandardFile EXCEPT !.has_order = FALSE, !.order = <<>>]

\* The pillar's `order` is an empty list.
EmptyOrderFile == [StandardFile EXCEPT !.order = <<>>]

\* The mapping file does not exist.
MissingFile ==
    [exists |-> FALSE, has_order |-> FALSE, order |-> <<>>, states |-> <<>>]

ConfigFiles ==
    {StandardFile, CreatedAliasFile, NoneAliasFile, DoubleAliasFile,
     CapitalFile, NoOrderFile, EmptyOrderFile, MissingFile}

\* [(equiv, state) for equiv in equiv_list]
RECURSIVE AliasPairs(_, _)
AliasPairs(state, equiv_list) ==
    IF equiv_list = <<>> THEN <<>>
    ELSE <<<<Head(equiv_list), state>>>> \o AliasPairs(state, Tail(equiv_list))

\* for state, equiv_list in info_dict[STATES].items():
\*     mappings[pillar].update(dict([...]))
RECURSIVE UpdateFromStates(_, _)
UpdateFromStates(d, states) ==
    IF states = <<>> THEN d
    ELSE UpdateFromStates(
             DictUpdate(d, AliasPairs(Head(states)[1], Head(states)[2])),
             Tail(states))

\* YamlFile.read_config_file: the forward table alias -> state, per pillar.
read_config_file(file) ==
    DictPut(EmptyDict, Pillar, UpdateFromStates(EmptyDict, file.states))

\* [(a_s, state) for state, alt_states in states.items() for a_s in alt_states]
RECURSIVE AllAliasPairs(_)
AllAliasPairs(states) ==
    IF states = <<>> THEN <<>>
    ELSE AliasPairs(Head(states)[1], Head(states)[2]) \o AllAliasPairs(Tail(states))

\* [(state, a_s) ...]: the pairs of the comprehension the wrong way round
RECURSIVE SwappedPairs(_)
SwappedPairs(pairs) ==
    IF pairs = <<>> THEN <<>>
    ELSE <<<<Head(pairs)[2], Head(pairs)[1]>>>> \o SwappedPairs(Tail(pairs))

\* Mutant: the table is keyed by state, not by alias.
get_reverse_status_mappings_by_state(m) ==
    DictUpdate(EmptyDict, SwappedPairs(AllAliasPairs(m.cfg.states)))

\* YamlFile.get_reverse_status_mappings, read from self.cfg at each call.
get_reverse_status_mappings(m) ==
    DictUpdate(EmptyDict, AllAliasPairs(m.cfg.states))

\* ConfigFileType.__init__: mappings = {} and order = [] unless the file
\* exists; then read_config_file and get_order (None without an `order` key).
YamlFile(file) ==
    IF ~file.exists
    THEN [mappings |-> EmptyDict, order_is_none |-> FALSE, order |-> <<>>,
          cfg |-> file]
    ELSE [mappings |-> read_config_file(file),
          order_is_none |-> ~file.has_order,
          order |-> IF file.has_order THEN file.order ELSE <<>>,
          cfg |-> file]

-----------------------------------------------------------------------------
(* bouncemetrics.py: values of find_bounces and build_report *)

\* The projects of the pillar, in the order of data[pillar].keys().
Projects == <<"p1", "p2">>

NoDefect == [defect_id |-> <<>>, states_unique_summary |-> <<>>, last_timestamp |-> 0]

\* summary[project] as lines 59-62 create it
NewSummary == [bounced |-> 0, total |-> 0, violations |-> <<>>]

NoBefore == [summary |-> NewSummary, bounced |-> <<>>]

\* 0.0
ZeroPercent == [num |-> 0, den |-> 1]

\* SpecBounce's variables while another specification runs.
IdleBounce ==
    /\ bpc = "idle"
    /\ dates = <<>>
    /\ pidx = 0
    /\ fetched = EmptyDict
    /\ defect = NoDefect
    /\ summary = EmptyDict
    /\ bounced = EmptyDict
    /\ before = NoBefore
    /\ error = "none"
    /\ ridx = 0
    /\ percentage = ZeroPercent
    /\ report = <<>>

\* The issue variable before the tracker returned one.
NoEntry ==
    [created |-> 0, priority |-> None, severity |-> None,
     environment |-> None, components |-> [present |-> FALSE, names |-> <<>>],
     log |-> <<>>]

\* SpecDefect's own variables while another specification runs.
IdleDefect ==
    /\ dpc = "idle"
    /\ bug_entry = NoEntry

\* SpecMain's variables while another specification runs.
IdleMain ==
    /\ mpc = "idle"
    /\ pillar_idx = 0
    /\ pillar_files = <<>>
    /\ cfg_map = YamlFile(MissingFile)
    /\ defects = <<>>
    /\ written = <<>>
    /\ main_error = "none"

-----------------------------------------------------------------------------
(* jira_client.py: _parse_change_log and _normalize_states *)

\* State = namedtuple('State', 'actual, standard, timestamp')
State(actual, standard, timestamp) ==
    [actual |-> actual, standard |-> standard, timestamp |-> timestamp]

\* [st.actual for st in state_changes]
Actuals(state_list) == [i \in 1..Len(state_list) |-> state_list[i].actual]

\* [rev_mapping.get(state.actual) for state in state_list]
normalize_states(m, state_list) ==
    LET rev_mapping == get_reverse_status_mappings(m) IN
    [i \in 1..Len(state_list) |-> DictGet(rev_mapping, state_list[i].actual)]

\* The three values every return statement of _parse_change_log builds.
ParseResult(m, state_list) ==
    [states |-> state_list,
     history |-> Actuals(state_list),
     summary |-> normalize_states(m, state_list)]

\* Largest timestamp, most history entries and most audit items of a log.
MaxTime == 1
MaxHistories == 2
MaxItems == 3

Times == 0..MaxTime

\* item['field'] and item['toString'] as the tracker may send them.
FieldNames == {"status", "Status", "assignee"}
ToStrings ==
    {"In Progress", "in test", "In Test", "Reopened", "done", "Blocked",
     None, ""}

NoChg == [created |-> 0, open |-> FALSE]
NoResult == [states |-> <<>>, history |-> <<>>, summary |-> <<>>]

IdleTimeline ==
    /\ ppc = "idle"
    /\ mapping = YamlFile(MissingFile)
    /\ create_time = 0
    /\ change_log = "null"
    /\ state_changes = <<>>
    /\ chg = NoChg
    /\ nchg = 0
    /\ nread = 0
    /\ parsed = NoResult
    /\ bug = NoResult

InitTimeline ==
    /\ ppc = "seed"
    /\ mapping \in {YamlFile(f) : f \in ConfigFiles}
    /\ create_time \in Times
    /\ change_log \in {"null", "nokey", "histories"}
    /\ state_changes = <<>>
    /\ chg = NoChg
    /\ nchg = 0
    /\ nread = 0
    /\ parsed = NoResult
    /\ bug = NoResult
    /\ IdleCount
    /\ IdleBounce
    /\ IdleDefect
    /\ IdleMain

\* Mutant: the seed event takes the time of the scan's clock origin.
SeedStateAtZero(m, t) == State(m.order[1], m.order[1], 0)

\* lines 310-312: the synthesized first event
SeedState(m, t) == State(m.order[1], m.order[1], t)

\* lines 310-312 when mapping.order is None or empty: order[0] raises
\* TypeError or IndexError, which nothing in the client catches.
SeedRaises ==
    /\ ppc = "seed"
    /\ mapping.order_is_none \/ mapping.order = <<>>
    /\ ppc' = "raised"
    /\ UNCHANGED <<mapping, create_time, change_log, state_changes, chg, nchg,
                   nread, parsed, bug, countVars, bounceVars,
                   defectVars, mainVars>>

Seed ==
    /\ ppc = "seed"
    /\ ~mapping.order_is_none
    /\ mapping.order # <<>>
    /\ state_changes' = <<SeedState(mapping, create_time)>>
    /\ ppc' = "try"
    /\ UNCHANGED <<mapping, create_time, change_log, chg, nchg, nread, parsed,
                   bug, countVars, bounceVars,
                   defectVars, mainVars>>

\* lines 314-320: a change log that is None or lacks changelog/histories is
\* caught and the seed alone is returned
NoHistories ==
    /\ ppc = "try"
    /\ change_log # "histories"
    /\ parsed' = ParseResult(mapping, state_changes)
    /\ ppc' = "returned"
    /\ UNCHANGED <<mapping, create_time, change_log, state_changes, chg, nchg,
                   nread, bug, countVars, bounceVars,
                   defectVars, mainVars>>

GetHistories ==
    /\ ppc = "try"
    /\ change_log = "histories"
    /\ ppc' = "histories"
    /\ UNCHANGED <<mapping, create_time, change_log, state_changes, chg, nchg,
                   nread, parsed, bug, countVars, bounceVars,
                   defectVars, mainVars>>

\* line 322: the next history entry, with its `created` time
NextChg ==
    /\ ppc = "histories"
    /\ nchg < MaxHistories
    /\ \E t \in Times : chg' = [created |-> t, open |-> TRUE]
    /\ nchg' = nchg + 1
    /\ ppc' = "items"
    /\ UNCHANGED <<mapping, create_time, change_log, state_changes, nread,
                   parsed, bug, countVars, bounceVars,
                   defectVars, mainVars>>

\* Mutant: the label is stored as the tracker sent it, not lowercased.
AppendedStateRawLabel(m, item, created) ==
    State(Str(item.to), m.mappings[Pillar][Lower(Str(item.to))], created)

\* lines 334, 351-356: the event appended for a mapped status item
AppendedState(m, item, created) ==
    LET orig_chg_to == Lower(Str(item.to)) IN
    State(orig_chg_to, m.mappings[Pillar][orig_chg_to], created)

\* lines 328-356 for one audit item. A field other than status changes
\* nothing; a status item returns the timeline as it stands when the pillar
\* has no table (lines 337-342), is ignored when the table does not hold its
\* lowercased label (lines 345-348), and is appended otherwise.
ScanItem ==
    /\ ppc = "items"
    /\ nread < MaxItems
    /\ \E field \in FieldNames, to \in ToStrings :
        LET item == [field |-> field, to |-> to]
            is_status == Lower(field) = Lower("status")
            orig_chg_to == Lower(Str(to))
        IN  IF is_status /\ Pillar \notin DOMAIN mapping.mappings
            THEN /\ parsed' = ParseResult(mapping, state_changes)
                 /\ ppc' = "returned"
                 /\ UNCHANGED state_changes
            ELSE /\ state_changes' =
                     IF is_status /\ orig_chg_to \in DOMAIN mapping.mappings[Pillar]
                     THEN Append(state_changes,
                                 AppendedState(mapping, item, chg.created))
                     ELSE state_changes
                 /\ UNCHANGED <<ppc, parsed>>
    /\ nread' = nread + 1
    /\ UNCHANGED <<mapping, create_time, change_log, chg, nchg, bug, countVars, bounceVars,
                   defectVars, mainVars>>

\* line 328: the items of the entry are exhausted
EndItems ==
    /\ ppc = "items"
    /\ chg' = NoChg
    /\ ppc' = "histories"
    /\ UNCHANGED <<mapping, create_time, change_log, state_changes, nchg, nread,
                   parsed, bug, countVars, bounceVars,
                   defectVars, mainVars>>

\* lines 358-360: the histories are exhausted
FinishScan ==
    /\ ppc = "histories"
    /\ parsed' = ParseResult(mapping, state_changes)
    /\ ppc' = "returned"
    /\ UNCHANGED <<mapping, create_time, change_log, state_changes, chg, nchg,
                   nread, bug, countVars, bounceVars,
                   defectVars, mainVars>>

\* _decompose_bug_entry, lines 241-249: the Bug keeps the three values
BuildBug ==
    /\ ppc = "returned"
    /\ bug' = parsed
    /\ ppc' = "built"
    /\ UNCHANGED <<mapping, create_time, change_log, state_changes, chg, nchg,
                   nread, parsed, countVars, bounceVars,
                   defectVars, mainVars>>

NextTimeline ==
    \/ SeedRaises
    \/ Seed
    \/ NoHistories
    \/ GetHistories
    \/ NextChg
    \/ ScanItem
    \/ EndItems
    \/ FinishScan
    \/ BuildBug

SpecTimeline == InitTimeline /\ [][NextTimeline]_vars

-----------------------------------------------------------------------------
(* SpecCount: the two pure functions on every bounded canonical sequence *)

\* Longest canonical list drawn.
MaxLen == 5

\* Canonical state names as a configuration may spell its `states` keys, and
\* None for a label the reverse mapping does not hold.
CanonicalValues == {"new", "open", "test", "closed", "Test", "OPEN", None}

InitCount ==
    /\ fpc = "start"
    /\ states_summary \in SeqUpTo(CanonicalValues, MaxLen)
    /\ transition_list = <<>>
    /\ count = 0
    /\ IdleTimeline
    /\ IdleBounce
    /\ IdleDefect
    /\ IdleMain

\* transition_list = bug_obj.states_unique_summary
ReadSummary ==
    /\ fpc = "start"
    /\ transition_list' = states_unique_summary(states_summary)
    /\ fpc' = "reduced"
    /\ UNCHANGED <<states_summary, count, timelineVars, bounceVars,
                   defectVars, mainVars>>

\* the rest of defect_bounce_count
CountBounces ==
    /\ fpc = "reduced"
    /\ count' = defect_bounce_count(transition_list)
    /\ fpc' = "counted"
    /\ UNCHANGED <<states_summary, transition_list, timelineVars, bounceVars,
                   defectVars, mainVars>>

NextCount == ReadSummary \/ CountBounces

SpecCount == InitCount /\ [][NextCount]_vars

-----------------------------------------------------------------------------
(* SpecBounce: BounceMetrics.__init__, find_bounces then build_report *)

\* Most status changes of a defect's canonical list, and most defects read
\* in one analysis.
MaxChanges == 5
MaxDefects == 2

\* The canonical states the analysis tells apart, and the first entry of a
\* canonical list: the initial state when it is its own alias, None when not.
BounceStates == {"open", "test", "closed"}
FirstStates == {"new", None} \cup BounceStates

\* Bug._states_summary of the defects a query may return.
RawSummaries ==
    {<<h>> \o b : h \in FirstStates, b \in SeqUpTo(BounceStates, MaxChanges)}

\* A date string of the interval: well formed for day `day`, or one that
\* datetime() rejects (not "Y/M/D" integers, or no calendar date).
DateString(day) == [well_formed |-> TRUE, day |-> day]
MalformedDate == [well_formed |-> FALSE, day |-> 0]

\* Bug.states_unique_summary of those defects, which is all find_bounces
\* reads of the canonical list.
ReducedSummaries == {states_unique_summary(raw) : raw \in RawSummaries}

Range(seq) == {seq[i] : i \in 1..Len(seq)}

\* list.count(x)
ListCount(seq, x) == Cardinality({i \in 1..Len(seq) : seq[i] = x})

\* The project whose defects are being read, and the one being reported.
Project == Projects[pidx]
ReportProject == Projects[ridx]

InitBounce ==
    /\ bpc = "project"
    /\ dates \in {<<>>}
             \cup {<<MalformedDate, DateString(e)>> : e \in Times}
             \cup {<<DateString(b), DateString(e)>> : b \in Times, e \in Times}
    /\ pidx = 0
    /\ fetched = EmptyDict
    /\ defect = NoDefect
    /\ summary = EmptyDict
    /\ bounced = EmptyDict
    /\ before = NoBefore
    /\ error = "none"
    /\ ridx = 0
    /\ percentage = ZeroPercent
    /\ report = <<>>
    /\ IdleCount
    /\ IdleTimeline
    /\ IdleDefect
    /\ IdleMain

\* The defects read so far in all projects.
RECURSIVE SumOver(_, _)
SumOver(d, keys) ==
    IF keys = {} THEN 0
    ELSE LET k == CHOOSE x \in keys : TRUE IN d[k] + SumOver(d, keys \ {k})

TotalFetched == SumOver(fetched, DOMAIN fetched)

\* lines 55-64: the next project gets its empty entries
NextProject ==
    /\ bpc = "project"
    /\ pidx < Len(Projects)
    /\ pidx' = pidx + 1
    /\ bounced' = DictPut(bounced, Projects[pidx + 1], <<>>)
    /\ summary' = DictPut(summary, Projects[pidx + 1], NewSummary)
    /\ fetched' = DictPut(fetched, Projects[pidx + 1], 0)
    /\ defect' = NoDefect
    /\ before' = NoBefore
    /\ bpc' = "defect"
    /\ UNCHANGED <<dates, error, ridx, percentage, report,
                   countVars, timelineVars,
                   defectVars, mainVars>>

\* line 66: the next defect of the project, the ids of a project distinct
FetchDefect ==
    /\ bpc = "defect"
    /\ TotalFetched < MaxDefects
    /\ \E reduced \in ReducedSummaries, t \in Times :
        defect' = [defect_id |-> <<Project, fetched[Project] + 1>>,
                   states_unique_summary |-> reduced,
                   last_timestamp |-> t]
    /\ fetched' = [fetched EXCEPT ![Project] = @ + 1]
    /\ before' = [summary |-> summary[Project], bounced |-> bounced[Project]]
    /\ bpc' = "closed"
    /\ UNCHANGED <<dates, pidx, summary, bounced, error, ridx, percentage,
                   report, countVars, timelineVars,
                   defectVars, mainVars>>

\* line 66: the project has no more defects
EndDefects ==
    /\ bpc = "defect"
    /\ bpc' = "project"
    /\ UNCHANGED <<dates, pidx, fetched, defect, summary, bounced, before,
                   error, ridx, percentage, report, countVars, timelineVars,
                   defectVars, mainVars>>

\* lines 70-72
NotClosed(d) ==
    \/ CLOSED \notin Range(d.states_unique_summary)
    \/ d.states_unique_summary[Len(d.states_unique_summary)] # CLOSED

\* `continue`, or the end of the loop body: back to line 66. The iteration's
\* defect goes out of scope.
NextIteration ==
    /\ bpc' = "defect"
    /\ defect' = NoDefect
    /\ before' = NoBefore

ClosedCheck ==
    /\ bpc = "closed"
    /\ IF NotClosed(defect)
       THEN NextIteration
       ELSE /\ bpc' = "interval"
            /\ UNCHANGED <<defect, before>>
    /\ UNCHANGED <<dates, pidx, fetched, summary, bounced, error, ridx,
                   percentage, report, countVars, timelineVars,
                   defectVars, mainVars>>

\* line 76: datetime(*[int(x) for x in self.dates[0].split('/')]) raises
\* IndexError without dates and ValueError for a malformed start date
IntervalError(ds) ==
    IF ds = <<>> THEN "IndexError"
    ELSE IF ~ds[1].well_formed THEN "ValueError"
    ELSE "none"

\* Mutant: a defect closed exactly at the interval start is excluded too.
was_closed_before_interval_inclusive(d, ds) == d.last_timestamp <= ds[1].day

\* Mutant: a defect whose latest event is after the interval end is
\* excluded as well.
was_closed_outside_interval(d, ds) ==
    d.last_timestamp < ds[1].day \/ d.last_timestamp > ds[2].day

\* line 77
was_closed_before_interval(d, ds) == d.last_timestamp < ds[1].day

\* lines 76-85
IntervalCheck ==
    /\ bpc = "interval"
    /\ IF IntervalError(dates) # "none"
       THEN /\ error' = IntervalError(dates)
            /\ bpc' = "raised"
            /\ UNCHANGED <<defect, before>>
       ELSE /\ IF /\ defect.states_unique_summary[Len(defect.states_unique_summary)]
                       = CLOSED
                  /\ was_closed_before_interval(defect, dates)
               THEN NextIteration
               ELSE /\ bpc' = "tally"
                    /\ UNCHANGED <<defect, before>>
            /\ UNCHANGED error
    /\ UNCHANGED <<dates, pidx, fetched, summary, bounced, ridx, percentage,
                   report, countVars, timelineVars,
                   defectVars, mainVars>>

\* line 88
Tally ==
    /\ bpc = "tally"
    /\ summary' = [summary EXCEPT ![Project].total = @ + 1]
    /\ bpc' = "bounce"
    /\ UNCHANGED <<dates, pidx, fetched, defect, bounced, before, error, ridx,
                   percentage, report, countVars, timelineVars,
                   defectVars, mainVars>>

\* lines 89-90
CountBounce ==
    /\ bpc = "bounce"
    /\ IF defect_bounce_count(defect.states_unique_summary) > 0
       THEN /\ summary' = [summary EXCEPT ![Project].bounced = @ + 1]
            /\ bpc' = "sla"
            /\ UNCHANGED <<defect, before>>
       ELSE /\ NextIteration
            /\ UNCHANGED summary
    /\ UNCHANGED <<dates, pidx, fetched, bounced, error, ridx, percentage,
                   report, countVars, timelineVars,
                   defectVars, mainVars>>

\* Mutant: the limit itself already is a violation (>= instead of >).
ExceedsSlaInclusive(d) == ListCount(d.states_unique_summary, OPEN) >= SLA_LIMIT

\* line 93
ExceedsSla(d) == ListCount(d.states_unique_summary, OPEN) > SLA_LIMIT

\* lines 93-94
CheckSla ==
    /\ bpc = "sla"
    /\ summary' =
        IF ExceedsSla(defect)
        THEN [summary EXCEPT ![Project].violations = Append(@, defect.defect_id)]
        ELSE summary
    /\ bpc' = "store"
    /\ UNCHANGED <<dates, pidx, fetched, defect, bounced, before, error, ridx,
                   percentage, report, countVars, timelineVars,
                   defectVars, mainVars>>

\* Mutant: the bounced defect is not kept.
StoreBouncedNothing(d, ids) == ids

\* line 96: bounced[project][defect.defect_id] = defect, keys in insertion order
StoreBounced(d, ids) ==
    IF d.defect_id \in Range(ids) THEN ids ELSE Append(ids, d.defect_id)

Store ==
    /\ bpc = "store"
    /\ bounced' = [bounced EXCEPT ![Project] = StoreBounced(defect, @)]
    /\ NextIteration
    /\ UNCHANGED <<dates, pidx, fetched, summary, error, ridx, percentage,
                   report, countVars, timelineVars,
                   defectVars, mainVars>>

\* line 100, then __init__ line 37 enters build_report
ReturnBounces ==
    /\ bpc = "project"
    /\ pidx = Len(Projects)
    /\ bpc' = "report"
    /\ UNCHANGED <<dates, pidx, fetched, defect, summary, bounced, before,
                   error, ridx, percentage, report, countVars, timelineVars,
                   defectVars, mainVars>>

\* lines 178-185: the next item of self.summary
NextSummaryItem ==
    /\ bpc = "report"
    /\ ridx < Len(Projects)
    /\ ridx' = ridx + 1
    /\ bpc' = "percent"
    /\ UNCHANGED <<dates, pidx, fetched, defect, summary, bounced, before,
                   error, percentage, report, countVars, timelineVars,
                   defectVars, mainVars>>

\* float(bounced) / float(total): ZeroDivisionError when total is 0
Divide(a, b) ==
    IF b = 0 THEN [raised |-> TRUE, value |-> ZeroPercent]
    ELSE [raised |-> FALSE, value |-> [num |-> a, den |-> b]]

\* Mutant: the except clause is missing, the error leaves build_report.
TryPercentageUnguarded(b, total) ==
    LET q == Divide(b, total) IN
    IF q.raised THEN q
    ELSE [raised |-> FALSE, value |-> [num |-> q.value.num * 100, den |-> q.value.den]]

\* lines 187-191: the quotient times 100.0, or 0.0 after ZeroDivisionError
TryPercentage(b, total) ==
    LET q == Divide(b, total) IN
    IF q.raised THEN [raised |-> FALSE, value |-> ZeroPercent]
    ELSE [raised |-> FALSE, value |-> [num |-> q.value.num * 100, den |-> q.value.den]]

ComputePercentage ==
    /\ bpc = "percent"
    /\ LET data == summary[ReportProject]
           r == TryPercentage(data.bounced, data.total)
       IN  IF r.raised
           THEN /\ error' = "ZeroDivisionError"
                /\ bpc' = "raised"
                /\ UNCHANGED percentage
           ELSE /\ percentage' = r.value
                /\ bpc' = "line"
                /\ UNCHANGED error
    /\ UNCHANGED <<dates, pidx, fetched, defect, summary, bounced, before,
                   ridx, report, countVars, timelineVars,
                   defectVars, mainVars>>

\* lines 194-195: the project's line of the report
AppendLine ==
    /\ bpc = "line"
    /\ LET data == summary[ReportProject] IN
       report' = Append(report,
                        [project |-> ReportProject,
                         total |-> data.total,
                         bounced |-> data.bounced,
                         num_violations |-> Len(data.violations),
                         percentage |-> percentage])
    /\ bpc' = "report"
    /\ UNCHANGED <<dates, pidx, fetched, defect, summary, bounced, before,
                   error, ridx, percentage, countVars, timelineVars,
                   defectVars, mainVars>>

\* lines 197-210: the table and the violation details end the report
FinishReport ==
    /\ bpc = "report"
    /\ ridx = Len(Projects)
    /\ bpc' = "done"
    /\ UNCHANGED <<dates, pidx, fetched, defect, summary, bounced, before,
                   error, ridx, percentage, report, countVars, timelineVars,
                   defectVars, mainVars>>

NextBounce ==
    \/ NextProject
    \/ FetchDefect
    \/ EndDefects
    \/ ClosedCheck
    \/ IntervalCheck
    \/ Tally
    \/ CountBounce
    \/ CheckSla
    \/ Store
    \/ ReturnBounces
    \/ NextSummaryItem
    \/ ComputePercentage
    \/ AppendLine
    \/ FinishReport

SpecBounce == InitBounce /\ [][NextBounce]_vars

-----------------------------------------------------------------------------
(* SpecDefect: one issue from the tracker's answer to the bounce analysis *)

\* Longest audit log drawn over all items.
MaxLogLen == 3

\* Audit items: a status change to an open, test or closed alias in either
\* letter case, a status change to a label no configuration lists, and a
\* change of another field.
AuditItems ==
    {[field |-> "status", to |-> "In Progress"],
     [field |-> "status", to |-> "in test"],
     [field |-> "Status", to |-> "In Test"],
     [field |-> "status", to |-> "Reopened"],
     [field |-> "status", to |-> "done"],
     [field |-> "status", to |-> "Blocked"],
     [field |-> "assignee", to |-> "done"]}

\* The `created` times of a log's history entries: rising with the
\* position, all equal, or falling to 0.
Clocks == {"forward", "same", "backward"}

Stamp(items, clock) ==
    [i \in 1..Len(items) |->
        [field |-> items[i].field,
         to |-> items[i].to,
         created |-> CASE clock = "forward" -> i
                       [] clock = "same" -> 0
                       [] OTHER -> Len(items) - i]]

\* The log of the specification's example: in progress, in test, reopened,
\* in test, done.
ExampleLog ==
    Stamp(<<[field |-> "status", to |-> "In Progress"],
            [field |-> "status", to |-> "in test"],
            [field |-> "status", to |-> "Reopened"],
            [field |-> "status", to |-> "in test"],
            [field |-> "status", to |-> "done"]>>, "forward")

\* fields['components'] of the tracker's answer: a list of names, an empty
\* list, or no such field.
Components(names) == [present |-> TRUE, names |-> names]
ComponentsAbsent == [present |-> FALSE, names |-> <<>>]

\* Issues with every classification field and any log, and issues with any
\* classification fields and the example's log.
Issues ==
    {[created |-> 0, priority |-> "high", severity |-> "major",
      environment |-> "prod", components |-> Components(<<"ui">>), log |-> l] :
        l \in {Stamp(items, c) : items \in SeqUpTo(AuditItems, MaxLogLen),
                                 c \in Clocks} \cup {ExampleLog}}
    \cup
    {[created |-> 0, priority |-> p, severity |-> v, environment |-> e,
      components |-> c, log |-> ExampleLog] :
        p \in {"high", "", None}, v \in {"major", None},
        e \in {"prod", None},
        c \in {Components(<<"ui">>), Components(<<>>), ComponentsAbsent}}

\* Status items whose toString is null or empty, and a mapped one.
NullLabelItems ==
    {[field |-> "status", to |-> None],
     [field |-> "status", to |-> ""],
     [field |-> "status", to |-> "in test"]}

\* Issues with every classification field whose log is made of them.
NullLabelIssues ==
    {[created |-> 0, priority |-> "high", severity |-> "major",
      environment |-> "prod", components |-> Components(<<"ui">>),
      log |-> Stamp(items, "forward")] :
        items \in SeqUpTo(NullLabelItems, MaxLogLen)}

\* The interval BounceMetrics is given.
StartDates ==
    {<<>>, <<MalformedDate, DateString(MaxTime)>>}
        \cup {<<DateString(b), DateString(MaxTime)>> : b \in Times}

InitDefect ==
    /\ dpc = "entry"
    /\ bug_entry \in Issues \cup NullLabelIssues
    /\ ppc = "idle"
    /\ mapping \in {YamlFile(f) :
                      f \in {StandardFile, CreatedAliasFile, DoubleAliasFile,
                             CapitalFile, EmptyOrderFile, MissingFile,
                             NoneAliasFile}}
    /\ mapping = YamlFile(NoneAliasFile) => bug_entry \in NullLabelIssues
    /\ create_time = 0
    /\ change_log = "histories"
    /\ state_changes = <<>>
    /\ chg = NoChg
    /\ nchg = 0
    /\ nread = 0
    /\ parsed = NoResult
    /\ bug = NoResult
    /\ IdleCount
    /\ IdleBounce
    /\ IdleMain

\* _decompose_bug_entry up to line 232: the list comprehension of line 227
\* raises TypeError over a missing components field.
ExtractFields ==
    /\ dpc = "entry"
    /\ dpc' = IF ~bug_entry.components.present THEN "raised" ELSE "log"
    /\ UNCHANGED <<bug_entry, countVars, timelineVars, bounceVars, mainVars>>

\* Mutant: an unmapped label ends the scan (`break` for `continue`).
RECURSIVE ScanLogStopAtUnmapped(_, _, _)
ScanLogStopAtUnmapped(m, changes, log) ==
    IF log = <<>> THEN changes
    ELSE LET item == Head(log)
             orig_chg_to == Lower(Str(item.to))
         IN  IF Lower(item.field) # Lower("status")
             THEN ScanLogStopAtUnmapped(m, changes, Tail(log))
             ELSE IF Pillar \notin DOMAIN m.mappings THEN changes
             ELSE IF orig_chg_to \notin DOMAIN m.mappings[Pillar] THEN changes
             ELSE ScanLogStopAtUnmapped(
                      m, Append(changes, AppendedState(m, item, item.created)),
                      Tail(log))

\* The list with event e placed before the first later event, the seed
\* staying first.
RECURSIVE InsertByTime(_, _)
InsertByTime(changes, e) ==
    IF changes = <<>> THEN <<e>>
    ELSE IF Head(changes).timestamp > e.timestamp THEN <<e>> \o changes
    ELSE <<Head(changes)>> \o InsertByTime(Tail(changes), e)

\* Mutant: the events after the seed are kept sorted by timestamp.
RECURSIVE ScanLogSortedByTime(_, _, _)
ScanLogSortedByTime(m, changes, log) ==
    IF log = <<>> THEN changes
    ELSE LET item == Head(log)
             orig_chg_to == Lower(Str(item.to))
         IN  IF Lower(item.field) # Lower("status")
             THEN ScanLogSortedByTime(m, changes, Tail(log))
             ELSE IF Pillar \notin DOMAIN m.mappings THEN changes
             ELSE IF orig_chg_to \notin DOMAIN m.mappings[Pillar]
             THEN ScanLogSortedByTime(m, changes, Tail(log))
             ELSE ScanLogSortedByTime(
                      m,
                      <<Head(changes)>> \o
                          InsertByTime(Tail(changes),
                                       AppendedState(m, item, item.created)),
                      Tail(log))

\* lines 322-356 over the items of the histories in source order, each item
\* carrying the `created` of its history entry: an item of another field is
\* passed over, a status item ends the scan when the pillar has no table
\* (lines 337-342), is ignored when the table does not hold its lowercased
\* label (lines 345-348) and is appended otherwise. The value is
\* state_changes when the scan ends.
RECURSIVE ScanLog(_, _, _)
ScanLog(m, changes, log) ==
    IF log = <<>> THEN changes
    ELSE LET item == Head(log)
             orig_chg_to == Lower(Str(item.to))
         IN  IF Lower(item.field) # Lower("status")
             THEN ScanLog(m, changes, Tail(log))
             ELSE IF Pillar \notin DOMAIN m.mappings THEN changes
             ELSE IF orig_chg_to \notin DOMAIN m.mappings[Pillar]
             THEN ScanLog(m, changes, Tail(log))
             ELSE ScanLog(m, Append(changes, AppendedState(m, item, item.created)),
                          Tail(log))

\* _parse_change_log on a change log that has its histories: line 310
\* raises TypeError for an order that is None and IndexError for an empty
\* one; otherwise the scan, then the three lists of line 360.
parse_change_log(m, t, log) ==
    IF m.order_is_none THEN [raised |-> "TypeError", value |-> NoResult]
    ELSE IF m.order = <<>> THEN [raised |-> "IndexError", value |-> NoResult]
    ELSE [raised |-> "none",
          value |-> ParseResult(m, ScanLog(m, <<SeedState(m, t)>>, log))]

\* Mutant: the first state is taken with order.pop(0), which shortens the
\* shared mapping's order at every parse.
ParseLogConsumesOrder ==
    /\ dpc = "log"
    /\ LET r == parse_change_log(mapping, bug_entry.created, bug_entry.log) IN
       IF r.raised # "none"
       THEN /\ dpc' = "raised"
            /\ UNCHANGED <<create_time, parsed, mapping>>
       ELSE /\ create_time' = bug_entry.created
            /\ parsed' = r.value
            /\ mapping' = [mapping EXCEPT !.order = Tail(@)]
            /\ dpc' = "parsed"
    /\ UNCHANGED <<bug_entry, ppc, change_log, state_changes, chg,
                   nchg, nread, bug, countVars, bounceVars, mainVars>>

\* _decompose_bug_entry lines 235-242; an exception of _parse_change_log
\* leaves _decompose_bug_entry and query.
ParseLog ==
    /\ dpc = "log"
    /\ LET r == parse_change_log(mapping, bug_entry.created, bug_entry.log) IN
       IF r.raised # "none"
       THEN /\ dpc' = "raised"
            /\ UNCHANGED <<create_time, parsed>>
       ELSE /\ create_time' = bug_entry.created
            /\ parsed' = r.value
            /\ dpc' = "parsed"
    /\ UNCHANGED <<bug_entry, ppc, mapping, change_log, state_changes, chg,
                   nchg, nread, bug, countVars, bounceVars, mainVars>>

\* Bug(**bug_data), lines 244-249 and Bug.__init__: priority and severity
\* are the tracker's values (None when missing, lines 207-211), component
\* the list of line 227; bug_data has no environment and no valid key, so
\* _environment is None and _valid the default True.
Bug(tuple, entry) ==
    [states |-> tuple.states,
     history |-> tuple.history,
     summary |-> tuple.summary,
     priority |-> entry.priority,
     severity |-> entry.severity,
     environment |-> None,
     component |-> entry.components.names,
     is_valid |-> TRUE]

BuildDefect ==
    /\ dpc = "parsed"
    /\ bug' = Bug(parsed, bug_entry)
    /\ dpc' = "built"
    /\ UNCHANGED <<bug_entry, ppc, mapping, create_time, change_log,
                   state_changes, chg, nchg, nread, parsed,
                   countVars, bounceVars, mainVars>>

\* The Bug as find_bounces reads it: defect_id, states_unique_summary and
\* states[-1].timestamp.
AsDefect(b, id) ==
    [defect_id |-> id,
     states_unique_summary |-> states_unique_summary(b.summary),
     last_timestamp |-> b.states[Len(b.states)].timestamp]

\* query returns the Bug in the project's list and BounceMetrics is built
\* on it: __init__ lines 33-36, then find_bounces lines 53-66 enter the
\* first project and read the defect.
AnalyseDefect ==
    /\ dpc = "built"
    /\ dpc' = "queried"
    /\ bpc = "idle"
    /\ dates' \in StartDates
    /\ pidx' = 1
    /\ bounced' = DictPut(EmptyDict, Projects[1], <<>>)
    /\ summary' = DictPut(EmptyDict, Projects[1], NewSummary)
    /\ fetched' = DictPut(EmptyDict, Projects[1], 1)
    /\ defect' = AsDefect(bug, <<Projects[1], 1>>)
    /\ before' = [summary |-> NewSummary, bounced |-> <<>>]
    /\ bpc' = "closed"
    /\ UNCHANGED <<bug_entry, error, ridx, percentage, report,
                   countVars, timelineVars, mainVars>>

NextDefect ==
    \/ ExtractFields
    \/ ParseLog
    \/ BuildDefect
    \/ AnalyseDefect
    \/ ClosedCheck
    \/ IntervalCheck
    \/ Tally
    \/ CountBounce
    \/ CheckSla
    \/ Store

SpecDefect == InitDefect /\ [][NextDefect]_vars

-----------------------------------------------------------------------------
(* SpecMain: metrics.py, main's loop over the pillars of a run *)

\* cli_args.args.pillar, by position.
PillarList == <<"first", "second">>

\* Most issues the queries of one pillar return, all projects together.
MaxIssues == 1

\* The mapping file as one pillar finds it: the file is missing, or it
\* holds no section for the pillar, or it holds this section.
PillarSections == {StandardFile, CreatedAliasFile, NoOrderFile, EmptyOrderFile}

PillarViews ==
    {[file |-> f, defined |-> TRUE] : f \in PillarSections}
        \cup {[file |-> StandardFile, defined |-> FALSE]}

\* The defects a query may return, as find_bounces reads them.
QueriedDefects ==
    {[states_unique_summary |-> r, last_timestamp |-> t] :
        r \in {<<"new", "open">>, <<"new", "open", "test", "closed">>,
               <<"new", "test", "open", "closed">>},
        t \in Times}

\* What the tracker answers to the query of one project: a response whose
\* status code is not OK, or an OK response with its issues.
Answers ==
    {[ok |-> FALSE, issues |-> <<>>]}
        \cup {[ok |-> TRUE, issues |-> i] :
                 i \in SeqUpTo(QueriedDefects, MaxIssues)}

\* JiraClient.query, lines 95-112: the Bugs of the issues of an OK
\* response, the empty list after any other response.
query(answer, project) ==
    IF answer.ok
    THEN [k \in 1..Len(answer.issues) |->
             [defect_id |-> <<project, k>>,
              states_unique_summary |-> answer.issues[k].states_unique_summary,
              last_timestamp |-> answer.issues[k].last_timestamp]]
    ELSE <<>>

\* all_defects[pillar][project] = value: a dict in insertion order, as the
\* sequence of its items.
ItemPut(items, project, value) ==
    IF \E i \in 1..Len(items) : items[i].project = project
    THEN [i \in 1..Len(items) |->
             IF items[i].project = project
             THEN [project |-> project, results |-> value] ELSE items[i]]
    ELSE Append(items, [project |-> project, results |-> value])

\* Mutant: a project whose query returned nothing gets no entry.
StoreResultsIfAny(all_defects, project, results_list) ==
    IF results_list # <<>>
    THEN ItemPut(all_defects, project, results_list)
    ELSE all_defects

\* get_jira_data, lines 63-72: the project's results, or [] without results
StoreResults(all_defects, project, results_list) ==
    IF results_list # <<>>
    THEN ItemPut(all_defects, project, results_list)
    ELSE ItemPut(all_defects, project, <<>>)

\* get_jira_data, lines 48-74: the loop over the projects
RECURSIVE get_jira_data(_, _, _)
get_jira_data(projects, answers, all_defects) ==
    IF projects = <<>> THEN all_defects
    ELSE get_jira_data(
             Tail(projects), Tail(answers),
             StoreResults(all_defects, Head(projects),
                          query(Head(answers), Head(projects))))

\* find_bounces, lines 66-96, for one defect of a project; acc holds the
\* project's summary and bounced entries and the exception raised so far.
FindBouncesDefect(acc, d, ds) ==
    IF acc.raised # "none" THEN acc
    ELSE IF NotClosed(d) THEN acc
    ELSE IF IntervalError(ds) # "none"
    THEN [acc EXCEPT !.raised = IntervalError(ds)]
    ELSE IF was_closed_before_interval(d, ds) THEN acc
    ELSE LET is_bounce == defect_bounce_count(d.states_unique_summary) > 0 IN
         [raised |-> "none",
          summary |->
              [total |-> acc.summary.total + 1,
               bounced |-> acc.summary.bounced + (IF is_bounce THEN 1 ELSE 0),
               violations |->
                   IF is_bounce /\ ExceedsSla(d)
                   THEN Append(acc.summary.violations, d.defect_id)
                   ELSE acc.summary.violations],
          bounced |-> IF is_bounce THEN StoreBounced(d, acc.bounced)
                      ELSE acc.bounced]

\* line 66: for defect in self.data[self.pillar][project]
RECURSIVE FindBouncesDefects(_, _, _)
FindBouncesDefects(acc, results, ds) ==
    IF results = <<>> THEN acc
    ELSE FindBouncesDefects(FindBouncesDefect(acc, Head(results), ds),
                            Tail(results), ds)

\* lines 55-64: for project in self.data[self.pillar].keys()
RECURSIVE FindBouncesProjects(_, _, _)
FindBouncesProjects(acc, items, ds) ==
    IF items = <<>> \/ acc.raised # "none" THEN acc
    ELSE LET project == Head(items).project
             r == FindBouncesDefects(
                      [raised |-> "none", summary |-> NewSummary,
                       bounced |-> <<>>],
                      Head(items).results, ds)
         IN  FindBouncesProjects(
                 [raised |-> r.raised,
                  bounced |-> DictPut(acc.bounced, project, r.bounced),
                  summary |-> DictPut(acc.summary, project, r.summary)],
                 Tail(items), ds)

\* find_bounces as a whole, lines 44-100: the bounced dict and the summary
\* of the data of a pillar, or the exception of line 76.
find_bounces(items, ds) ==
    FindBouncesProjects(
        [raised |-> "none", bounced |-> EmptyDict, summary |-> EmptyDict],
        items, ds)

InitMain ==
    /\ mpc = "pillar"
    /\ pillar_idx = 0
    /\ pillar_files \in
           [1..Len(PillarList) -> PillarViews]
               \cup {[i \in 1..Len(PillarList) |->
                         [file |-> MissingFile, defined |-> FALSE]]}
    /\ cfg_map = YamlFile(MissingFile)
    /\ defects = <<>>
    /\ written = <<>>
    /\ main_error = "none"
    /\ bpc = "idle"
    /\ dates \in {<<MalformedDate, DateString(MaxTime)>>}
             \cup {<<DateString(b), DateString(e)>> : b \in Times, e \in Times}
    /\ pidx = 0
    /\ fetched = EmptyDict
    /\ defect = NoDefect
    /\ summary = EmptyDict
    /\ bounced = EmptyDict
    /\ before = NoBefore
    /\ error = "none"
    /\ ridx = 0
    /\ percentage = ZeroPercent
    /\ report = <<>>
    /\ IdleCount
    /\ IdleTimeline
    /\ IdleDefect

\* get_configuration: YamlFile(**args). A missing file only warns; with the
\* file read, get_order's self.cfg[self.pillar] raises KeyError for a
\* pillar the file does not hold.
get_configuration(view) ==
    IF view.file.exists /\ ~view.defined
    THEN [raised |-> "KeyError", value |-> YamlFile(MissingFile)]
    ELSE [raised |-> "none", value |-> YamlFile(view.file)]

\* lines 101-106
NextPillar ==
    /\ mpc = "pillar"
    /\ pillar_idx < Len(PillarList)
    /\ pillar_idx' = pillar_idx + 1
    /\ mpc' = "config"
    /\ UNCHANGED <<pillar_files, cfg_map, defects, written, main_error,
                   countVars, timelineVars, bounceVars, defectVars>>

\* lines 109-111: the pillar's configuration, then get_url, whose
\* self.cfg[self.pillar] raises TypeError while cfg is None (no file read).
\* main catches nothing.
GetConfiguration ==
    /\ mpc = "config"
    /\ LET view == pillar_files[pillar_idx]
           made == get_configuration(view)
       IN  IF made.raised # "none"
           THEN /\ main_error' = made.raised
                /\ mpc' = "raised"
                /\ UNCHANGED cfg_map
           ELSE /\ cfg_map' = made.value
                /\ IF ~view.file.exists
                   THEN /\ main_error' = "TypeError"
                        /\ mpc' = "raised"
                   ELSE /\ mpc' = "query"
                        /\ UNCHANGED main_error
    /\ UNCHANGED <<pillar_idx, pillar_files, defects, written,
                   countVars, timelineVars, bounceVars, defectVars>>

\* lines 118-122: the client and get_jira_data over the pillar's projects.
\* Every issue returned goes through _decompose_bug_entry, whose
\* _parse_change_log raises at line 310 when mapping.order is None
\* (TypeError) or empty (IndexError).
GetJiraData ==
    /\ mpc = "query"
    /\ \E answers \in [1..Len(Projects) -> Answers] :
        /\ SumOver([i \in 1..Len(Projects) |-> Len(answers[i].issues)],
                   1..Len(Projects)) <= MaxIssues
        /\ IF /\ \E i \in 1..Len(Projects) : answers[i].issues # <<>>
              /\ cfg_map.order_is_none \/ cfg_map.order = <<>>
           THEN /\ main_error' =
                       IF cfg_map.order_is_none THEN "TypeError"
                       ELSE "IndexError"
                /\ mpc' = "raised"
                /\ UNCHANGED defects
           ELSE /\ defects' = get_jira_data(Projects, answers, <<>>)
                /\ mpc' = "analyse"
                /\ UNCHANGED main_error
    /\ UNCHANGED <<pillar_idx, pillar_files, cfg_map, written,
                   countVars, timelineVars, bounceVars, defectVars>>

\* line 125, BounceMetrics(...): find_bounces reaches line 76 for a defect
\* that ends in "closed" and raises there on an unreadable start date;
\* otherwise the object holds the bounced dict and the summary.
AnalysePillar ==
    /\ mpc = "analyse"
    /\ LET r == find_bounces(defects, dates) IN
       IF r.raised # "none"
       THEN /\ main_error' = r.raised
            /\ mpc' = "raised"
            /\ UNCHANGED <<summary, bounced>>
       ELSE /\ summary' = r.summary
            /\ bounced' = r.bounced
            /\ mpc' = "write"
            /\ UNCHANGED main_error
    /\ UNCHANGED <<pillar_idx, pillar_files, cfg_map, defects, written,
                   bpc, dates, pidx, fetched, defect, before, error, ridx,
                   percentage, report,
                   countVars, timelineVars, defectVars>>

\* line 125, .write_report(filename=results_file); the pillar's data and
\* its BounceMetrics object are dropped with the iteration.
WriteReport ==
    /\ mpc = "write"
    /\ written' = Append(written, pillar_idx)
    /\ defects' = <<>>
    /\ summary' = EmptyDict
    /\ bounced' = EmptyDict
    /\ mpc' = "pillar"
    /\ UNCHANGED <<pillar_idx, pillar_files, cfg_map, main_error,
                   bpc, dates, pidx, fetched, defect, before, error, ridx,
                   percentage, report,
                   countVars, timelineVars, defectVars>>

\* line 127: "Processing complete."
Complete ==
    /\ mpc = "pillar"
    /\ pillar_idx = Len(PillarList)
    /\ mpc' = "complete"
    /\ UNCHANGED <<pillar_idx, pillar_files, cfg_map, defects, written,
                   main_error, countVars, timelineVars, bounceVars, defectVars>>

NextMain ==
    \/ NextPillar
    \/ GetConfiguration
    \/ GetJiraData
    \/ AnalysePillar
    \/ WriteReport
    \/ Complete

SpecMain == InitMain /\ [][NextMain]_vars

-----------------------------------------------------------------------------
(* Properties *)

\* "test" and "open" in any letter case; None is in neither set.
TestSpellings == {"test", "Test", "TEST"}
OpenSpellings == {"open", "Open", "OPEN"}

\* The adjacent pair at positions i, i+1 (from 1) is a test -> open pair.
TestThenOpen(s, i) == s[i] \in TestSpellings /\ s[i + 1] \in OpenSpellings

NoAdjacentEqual(s) == \A i \in 1..(Len(s) - 1) : s[i] # s[i + 1]

\* The event _parse_change_log synthesizes for the defect.
SeedEvent ==
    [actual |-> mapping.order[1], standard |-> mapping.order[1],
     timestamp |-> create_time]

\* C1: the first StateEvent of the timeline is the synthesized one, with
\* actual = standard = order[0] and the creation time, at every step of the
\* scan, in the tuple returned and in the Bug built from it.
C1_FirstEventIsSeed ==
    /\ ppc \in {"try", "histories", "items", "returned", "built"} =>
           /\ state_changes # <<>>
           /\ state_changes[1] = SeedEvent
    /\ ppc \in {"returned", "built"} =>
           /\ parsed.states # <<>>
           /\ parsed.states[1] = SeedEvent
    /\ ppc = "built" => bug.states[1] = SeedEvent

\* A scan returned a seed followed by two events, the first of them older
\* than the creation time, after ignoring one item.
C1_Witness ==
    /\ ppc = "returned"
    /\ change_log = "histories"
    /\ create_time = 1
    /\ Len(parsed.states) = 3
    /\ parsed.states[2].timestamp = 0
    /\ nread = 3

\* C2 as claimed: the reduced canonical list of a built defect is not empty
\* and starts with the pillar's initial state order[0], which is not None.
C2_ReducedStartsWithInitialState ==
    ppc = "built" =>
        LET reduced == states_unique_summary(bug.summary) IN
        /\ reduced # <<>>
        /\ reduced[1] # None
        /\ reduced[1] = mapping.order[1]

\* C3: the reduced sequence returned by states_unique_summary has no two
\* adjacent equal elements, and reducing it again returns it unchanged.
C3_ReducedNoRepeatsIdempotent ==
    fpc \in {"reduced", "counted"} =>
        /\ NoAdjacentEqual(transition_list)
        /\ states_unique_summary(transition_list) = transition_list

\* A canonical list with a repeated state and a repeated None was reduced.
C3_Witness ==
    /\ fpc = "reduced"
    /\ states_summary = <<"open", "open", None, None, "test">>
    /\ transition_list = <<"open", None, "test">>

\* C5 as claimed: the count is the number of test -> open pairs among the
\* Python indices [0, len-2), every adjacent pair except the last one.
C5_CountExcludesLastPair ==
    fpc = "counted" =>
        count = Cardinality({i \in 1..(Len(transition_list) - 2) :
                                TestThenOpen(transition_list, i)})

\* C5 amended: for a reduced sequence of at least 4 states the count is the
\* number of test -> open pairs among all adjacent pairs, the last one
\* included (letter case ignored, None never matching); for a shorter
\* sequence it is 0.
C5_CountAllPairsFromFourStates ==
    fpc = "counted" =>
        count = IF Len(transition_list) >= 4
                THEN Cardinality({i \in 1..(Len(transition_list) - 1) :
                                     TestThenOpen(transition_list, i)})
                ELSE 0

\* Two pairs are counted, one spelled in capitals and one the final pair.
C5_Witness ==
    /\ fpc = "counted"
    /\ transition_list = <<"Test", "OPEN", None, "test", "open">>
    /\ count = 2

\* C6: a reduced sequence of length 4 whose only test -> open pair is its
\* final pair counts 1; a reduced sequence of length 2 counts 0.
C6_FinalPairOfFourCountsLengthTwoDoesNot ==
    fpc = "counted" =>
        /\ ( /\ Len(transition_list) = 4
             /\ TestThenOpen(transition_list, 3)
             /\ ~TestThenOpen(transition_list, 1)
             /\ ~TestThenOpen(transition_list, 2) ) => count = 1
        /\ Len(transition_list) = 2 => count = 0

C6_Witness ==
    /\ fpc = "counted"
    /\ transition_list = <<"new", "open", "test", "open">>
    /\ count = 1

\* C7 as claimed: fewer than 3 reduced states count 0, and exactly 3 reduced
\* states holding a test -> open pair count more than 0.
C7_ThreeStatesCanBounce ==
    fpc = "counted" =>
        /\ Len(transition_list) < 3 => count = 0
        /\ ( /\ Len(transition_list) = 3
             /\ \E i \in 1..2 : TestThenOpen(transition_list, i) ) => count > 0

\* The start of the interval can be read from dates[0].
ValidStart == dates # <<>> /\ dates[1].well_formed

\* Section 4.4's eligibility: the reduced list ends with "closed" and the
\* latest event is not earlier than the interval start.
Eligible(d) ==
    /\ d.states_unique_summary # <<>>
    /\ d.states_unique_summary[Len(d.states_unique_summary)] = "closed"
    /\ ValidStart
    /\ d.last_timestamp >= dates[1].day

\* The number of test -> open pairs find_bounces counts for a reduced list.
BouncePairs(s) ==
    IF Len(s) >= 4
    THEN Cardinality({i \in 1..(Len(s) - 1) : TestThenOpen(s, i)})
    ELSE 0

\* A step that ends the iteration of `defect`: a continue, or line 96.
EndsIteration ==
    /\ bpc \in {"closed", "interval", "tally", "bounce", "sla", "store"}
    /\ bpc' = "defect"

\* C4: an iteration adds 1 to the project's total iff its defect is
\* eligible (a latest timestamp equal to the start is eligible); for a
\* defect failing either test the project's summary entry (total, bounced,
\* violations) and bounced dictionary are as they were before it.
C4_TotalCountsExactlyEligible ==
    [][EndsIteration =>
        /\ summary'[Project].total =
               before.summary.total + (IF Eligible(defect) THEN 1 ELSE 0)
        /\ ~Eligible(defect) =>
               /\ summary'[Project] = before.summary
               /\ bounced'[Project] = before.bounced]_vars

\* A defect whose latest event is exactly at the interval start was counted.
C4_Witness ==
    /\ bpc = "bounce"
    /\ defect.last_timestamp = dates[1].day
    /\ summary[Project].total = before.summary.total + 1

\* C8: an eligible defect is in its project's violation list after its
\* iteration iff it has a counted bounce and "open" occurs more than 2 times
\* in its reduced list; 3 occurrences violate, 2 do not.
C8_ViolationIffBouncedAndOverLimit ==
    [][(EndsIteration /\ Eligible(defect)) =>
        LET r == defect.states_unique_summary
            opens == Cardinality({i \in 1..Len(r) : r[i] = "open"})
            listed == defect.defect_id \in Range(summary'[Project].violations)
        IN  /\ listed <=> (BouncePairs(r) > 0 /\ opens > 2)
            /\ (BouncePairs(r) > 0 /\ opens = 3) => listed
            /\ opens = 2 => ~listed]_vars

\* A bounced defect with exactly 3 "open" was appended to the violations.
C8_Witness ==
    /\ bpc = "store"
    /\ ListCount(defect.states_unique_summary, "open") = 3
    /\ defect.defect_id \in Range(summary[Project].violations)

\* The counters of every project entered so far are ordered:
\* 0 <= bounced <= total <= defects read, and violations are at most bounced.
CountersOrdered ==
    \A p \in DOMAIN summary :
        /\ 0 <= summary[p].bounced
        /\ summary[p].bounced <= summary[p].total
        /\ summary[p].total <= fetched[p]
        /\ Len(summary[p].violations) <= summary[p].bounced

\* C9 as claimed: at every point of find_bounces and in its result the
\* counters are ordered and every defect of a violation list is in the
\* project's bounced dictionary.
C9_ViolationsAlwaysInBounced ==
    /\ CountersOrdered
    /\ \A p \in DOMAIN summary :
           Range(summary[p].violations) \subseteq Range(bounced[p])

\* C9 amended: the counters are ordered at every point; every defect of a
\* violation list is in the project's bounced dictionary at every point
\* except between lines 94 and 96 of an iteration, where the defect just
\* appended to the violations is the one line 96 is about to store.
C9_ViolationsInBouncedOnceStored ==
    /\ CountersOrdered
    /\ \A p \in DOMAIN summary :
           Range(summary[p].violations) \subseteq
               Range(bounced[p]) \cup
                   (IF bpc = "store" /\ p = Project
                    THEN {defect.defect_id} ELSE {})

\* Between lines 94 and 96 of a project's second defect: it is in the
\* violation list and not yet in the bounced dictionary.
C9_Witness ==
    /\ bpc = "store"
    /\ summary[Project].total = 2
    /\ defect.defect_id \in Range(summary[Project].violations)
    /\ defect.defect_id \notin Range(bounced[Project])

\* C10: a project whose total is 0 gets a percentage of exactly 0.0, no
\* ZeroDivisionError leaves build_report, and the finished report holds a
\* line for every project, in order.
C10_ZeroTotalReportsZeroPercent ==
    /\ error # "ZeroDivisionError"
    /\ (bpc = "line" /\ summary[ReportProject].total = 0) =>
           percentage = ZeroPercent
    /\ \A i \in 1..Len(report) :
           /\ report[i].project = Projects[i]
           /\ report[i].total = 0 => report[i].percentage = ZeroPercent
    /\ bpc = "done" => Len(report) = Len(Projects)

\* The report is finished; its first project had no eligible defect and
\* the project after it had one.
C10_Witness ==
    /\ bpc = "done"
    /\ report[1].total = 0
    /\ report[1].percentage = ZeroPercent
    /\ report[2].total = 1
    /\ report[2].percentage # ZeroPercent

\* C11 as claimed: with a missing or malformed interval start date the
\* analysis fails for every data set: find_bounces never returns, so no
\* report is built.
C11_BadStartAlwaysFails ==
    ~ValidStart => bpc \notin {"report", "percent", "line", "done"}

\* C12 as claimed: an error raised while one pillar is processed never ends
\* the run: no exception leaves main, the pillars after it get their
\* report, and the run completes.
C12_ErrorStopsOnlyItsPillar ==
    /\ mpc # "raised"
    /\ main_error = "none"

\* The status mapping the specification accepts: an order that is present
\* and not empty, each of its entries the state of at least one alias.
ValidStatusMapping(m) ==
    /\ ~m.order_is_none
    /\ m.order # <<>>
    /\ Pillar \in DOMAIN m.mappings
    /\ \A i \in 1..Len(m.order) :
           \E alias \in DOMAIN m.mappings[Pillar] :
               m.mappings[Pillar][alias] = m.order[i]

\* C13 as claimed: get_configuration reports a configuration error for an
\* empty or absent order and for an order entry without alias, so main
\* goes on to query a pillar only with a valid status mapping.
C13_InvalidMappingReportedBeforeQuery ==
    mpc \in {"query", "analyse", "write"} => ValidStatusMapping(cfg_map)

\* ---- one issue end to end (SpecDefect)

\* The item's field name is "status" in some letter case.
StatusField(item) == item.field \in {"status", "Status", "STATUS"}

\* The pillar's alias table, when it has one.
HasTable == Pillar \in DOMAIN mapping.mappings
Table == mapping.mappings[Pillar]

\* A status entry whose lowercased label is, or is not, a key of the table.
IsMappedEntry(item) ==
    StatusField(item) /\ Lower(Str(item.to)) \in DOMAIN Table
IsUnmappedEntry(item) ==
    StatusField(item) /\ Lower(Str(item.to)) \notin DOMAIN Table

\* The mapped status entries of a log, in source order.
MappedEntries(log) == SelectSeq(log, LAMBDA item : IsMappedEntry(item))

\* The log without its i-th entry, and with its i-th entry replaced.
RemoveAt(log, i) == SubSeq(log, 1, i - 1) \o SubSeq(log, i + 1, Len(log))
ReplaceAt(log, i, item) == [log EXCEPT ![i] = item]

\* _parse_change_log returned for the issue.
Returned == dpc \in {"parsed", "built", "queried"}

\* _decompose_bug_entry returned the Bug of the issue.
Built == dpc \in {"built", "queried"}

\* C14 as claimed: when the pillar has no mapping and the log holds a status
\* change, _parse_change_log raises nothing and returns the synthesized
\* event alone, the raw and canonical lists of length 1.
C14_NoMappingReturnsSeedOnly ==
    ( /\ dpc \notin {"idle", "entry", "log"}
      /\ bug_entry.components.present
      /\ ~HasTable
      /\ \E i \in 1..Len(bug_entry.log) : StatusField(bug_entry.log[i]) )
    => /\ dpc # "raised"
       /\ Len(parsed.states) = 1
       /\ Len(parsed.history) = 1
       /\ Len(parsed.summary) = 1

\* C15: a status entry whose lowercased label is not a key of the alias
\* table adds nothing: the three lists hold the seed and one element per
\* mapped entry, none of them the entry's label, and the result is the
\* result for the log without that entry.
C15_UnmappedEntrySkipped ==
    dpc = "parsed" =>
        \A i \in 1..Len(bug_entry.log) :
            IsUnmappedEntry(bug_entry.log[i]) =>
                /\ parse_change_log(mapping, bug_entry.created,
                                    RemoveAt(bug_entry.log, i)).value = parsed
                /\ Len(parsed.states) = 1 + Len(MappedEntries(bug_entry.log))
                /\ Len(parsed.history) = Len(parsed.states)
                /\ Len(parsed.summary) = Len(parsed.states)
                /\ \A k \in 2..Len(parsed.states) :
                       /\ parsed.history[k] # Lower(Str(bug_entry.log[i].to))
                       /\ parsed.states[k].actual # Lower(Str(bug_entry.log[i].to))

\* An unmapped "Blocked" between two mapped entries was skipped.
C15_Witness ==
    /\ dpc = "parsed"
    /\ mapping = YamlFile(StandardFile)
    /\ Len(bug_entry.log) = 3
    /\ bug_entry.log[1].to = "In Progress"
    /\ bug_entry.log[2].to = "Blocked"
    /\ bug_entry.log[3].to = "done"
    /\ parsed.history = <<"new", "in progress", "done">>

\* order[0] is listed among its own aliases.
OwnAlias ==
    /\ HasTable
    /\ ~mapping.order_is_none
    /\ mapping.order # <<>>
    /\ mapping.order[1] \in DOMAIN Table
    /\ Table[mapping.order[1]] = mapping.order[1]

\* A sequence with each run of equal neighbours cut to one element.
RECURSIVE Collapse(_)
Collapse(s) ==
    IF Len(s) <= 1 THEN s
    ELSE LET front == SubSeq(s, 1, Len(s) - 1) IN
         IF s[Len(s)] = s[Len(s) - 1] THEN Collapse(front)
         ELSE Append(Collapse(front), s[Len(s)])

\* The canonical states of entries, by the alias table.
CanonicalOf(entries) ==
    [k \in 1..Len(entries) |-> Table[Lower(Str(entries[k].to))]]

\* The reduced canonical list of the Bug, and its latest event's time.
ReducedCanonical == states_unique_summary(bug.summary)
LatestTime == bug.states[Len(bug.states)].timestamp

\* The first project's iteration for the Bug is over.
Analysed == dpc = "queried" /\ bpc = "defect"

\* C16: with order[0] an alias of itself, reduced_canonical is order[0]
\* followed by the canonical states of the mapped status entries in source
\* order, runs collapsed; the example's log under order [new, open, test,
\* closed] gives [new, open, test, open, test, closed] and bounce count 1;
\* a defect ending in "closed" whose latest event is not earlier than the
\* interval start is counted, and is bounced when it has a counted pair.
C16_EndToEndReducedCanonical ==
    /\ (Built /\ OwnAlias) =>
           ReducedCanonical =
               Collapse(<<mapping.order[1]>>
                            \o CanonicalOf(MappedEntries(bug_entry.log)))
    /\ (Built /\ mapping = YamlFile(StandardFile)
              /\ bug_entry.log = ExampleLog) =>
           /\ ReducedCanonical =
                  <<"new", "open", "test", "open", "test", "closed">>
           /\ defect_bounce_count(ReducedCanonical) = 1
    /\ ( /\ Analysed
         /\ OwnAlias
         /\ ValidStart
         /\ ReducedCanonical[Len(ReducedCanonical)] = "closed"
         /\ LatestTime >= dates[1].day ) =>
           /\ summary[Project].total = 1
           /\ summary[Project].bounced =
                  (IF BouncePairs(ReducedCanonical) > 0 THEN 1 ELSE 0)
           /\ bounced[Project] =
                  (IF BouncePairs(ReducedCanonical) > 0
                   THEN << <<Project, 1>> >> ELSE <<>>)

\* The example's defect went through the analysis and was stored as bounced.
C16_Witness ==
    /\ Analysed
    /\ mapping = YamlFile(StandardFile)
    /\ bug_entry.log = ExampleLog
    /\ ValidStart
    /\ summary[Project].total = 1
    /\ summary[Project].bounced = 1
    /\ bounced[Project] = << <<Project, 1>> >>

\* A required classification value that is missing or blank.
Blank(x) == x \in {None, ""}

\* C17 as claimed: the Bug built from an issue is valid iff none of
\* component, environment, priority and severity is missing or blank.
C17_ValidIffRequiredFieldsPresent ==
    Built =>
        (bug.is_valid <=>
            /\ bug_entry.components.present
            /\ bug_entry.components.names # <<>>
            /\ ~Blank(bug_entry.environment)
            /\ ~Blank(bug_entry.priority)
            /\ ~Blank(bug_entry.severity))

\* C19: the events after the synthesized first one are the mapped status
\* entries of the log in source order, each with the time of its history
\* entry, whatever the order of the timestamps; the raw history is the
\* actual labels of the events in the same order.
C19_EventsInSourceOrder ==
    Returned =>
        LET entries == MappedEntries(bug_entry.log) IN
        /\ parsed.states[1] = SeedState(mapping, bug_entry.created)
        /\ Len(parsed.states) = 1 + Len(entries)
        /\ \A k \in 1..Len(entries) :
               /\ parsed.states[k + 1].timestamp = entries[k].created
               /\ parsed.states[k + 1].standard =
                      Table[Lower(Str(entries[k].to))]
        /\ parsed.history =
               [k \in 1..Len(parsed.states) |-> parsed.states[k].actual]

\* Three mapped entries with falling timestamps were kept as supplied.
C19_Witness ==
    /\ dpc = "parsed"
    /\ Len(parsed.states) = 4
    /\ parsed.states[2].timestamp > parsed.states[3].timestamp
    /\ parsed.states[3].timestamp > parsed.states[4].timestamp
    /\ parsed.history = <<"new", "in progress", "in test", "done">>

\* The same item with field name and label in the other letter case.
OtherCase(item) ==
    [item EXCEPT
        !.field = CASE @ = "status" -> "Status"
                    [] @ = "Status" -> "status"
                    [] OTHER -> @,
        !.to = CASE @ = "In Progress" -> "in progress"
                 [] @ = "in test" -> "In Test"
                 [] @ = "In Test" -> "in test"
                 [] @ = "Reopened" -> "reopened"
                 [] @ = "done" -> "Done"
                 [] @ = "Blocked" -> "blocked"
                 [] OTHER -> @]

\* C20: an item of a field other than status (in any letter case) never
\* changes the timeline; the actual label of an appended event is the
\* lowercase form of the item's label; an item whose field name and label
\* differ only in letter case gives the same result.
C20_StatusItemsOnlyLabelsLowercased ==
    dpc = "parsed" =>
        LET entries == MappedEntries(bug_entry.log) IN
        /\ \A i \in 1..Len(bug_entry.log) :
               /\ ~StatusField(bug_entry.log[i]) =>
                      parse_change_log(mapping, bug_entry.created,
                                       RemoveAt(bug_entry.log, i)).value = parsed
               /\ StatusField(bug_entry.log[i]) =>
                      parse_change_log(
                          mapping, bug_entry.created,
                          ReplaceAt(bug_entry.log, i,
                                    OtherCase(bug_entry.log[i]))).value = parsed
        /\ \A k \in 1..Len(entries) :
               /\ StatusField(entries[k])
               /\ parsed.states[k + 1].actual = Lower(Str(entries[k].to))
               /\ parsed.states[k + 1].actual = Lower(parsed.states[k + 1].actual)

\* A "Status" item with label "In Test" was appended as "in test" after an
\* item of another field was passed over.
C20_Witness ==
    /\ dpc = "parsed"
    /\ Len(bug_entry.log) = 2
    /\ bug_entry.log[1].field = "assignee"
    /\ bug_entry.log[2].field = "Status"
    /\ bug_entry.log[2].to = "In Test"
    /\ Len(parsed.states) = 2
    /\ parsed.states[2].actual = "in test"

\* C18: appending states never lowers the count: the count of every prefix
\* of the reduced sequence, and of every prefix of any canonical list, is
\* at most the count of the whole, and the count with a further test ->
\* open pair appended is at least the count without it.
C18_CountNeverDropsWhenAppending ==
    fpc = "counted" =>
        /\ \A k \in 0..Len(transition_list) :
               defect_bounce_count(SubSeq(transition_list, 1, k)) <= count
        /\ \A k \in 0..Len(states_summary) :
               defect_bounce_count(SubSeq(states_summary, 1, k))
                   <= defect_bounce_count(states_summary)
        /\ defect_bounce_count(transition_list \o <<TEST, OPEN>>) >= count

\* The count grew from 1 to 2 with the last state, and other states follow
\* the first counted pair.
C18_Witness ==
    /\ fpc = "counted"
    /\ transition_list = <<"test", "open", "closed", "test", "open">>
    /\ defect_bounce_count(SubSeq(transition_list, 1, 4)) = 1
    /\ count = 2

\* ---- null entries, scan ranges and counted opens (SpecCount)

\* The indexes of s where a run of null entries begins.
NullRuns(s) ==
    {i \in 1..Len(s) : s[i] = None /\ (i = 1 \/ s[i - 1] # None)}

\* C21 as claimed: the reduction keeps the null entries of a canonical
\* list: each run of nulls, the one at position 0 included, leaves a null
\* in the reduced list, between the same non-null neighbours.
C21_ReductionKeepsNulls ==
    fpc \in {"reduced", "counted"} =>
        /\ ListCount(transition_list, None) =
               Cardinality(NullRuns(states_summary))
        /\ transition_list = Collapse(states_summary)

\* The test -> open pairs a scan over every adjacent pair but the last one
\* would count, under the same length guard.
ScanExceptLast(s) ==
    IF Len(s) >= 4
    THEN Cardinality({i \in 1..(Len(s) - 2) : TestThenOpen(s, i)})
    ELSE 0

\* C27: for a reduced list that ends with "closed" (the eligibility test of
\* find_bounces) the final adjacent pair is not a test -> open pair, and the
\* count over all adjacent pairs equals the count over all pairs but the
\* last; the two counts differ only for a list that does not end with
\* "closed".
C27_EligibleCountIgnoresScanRange ==
    fpc = "counted" =>
        /\ ( /\ transition_list # <<>>
             /\ transition_list[Len(transition_list)] = CLOSED ) =>
               /\ Len(transition_list) >= 2 =>
                      ~TestThenOpen(transition_list,
                                    Len(transition_list) - 1)
               /\ count = ScanExceptLast(transition_list)
        /\ count # ScanExceptLast(transition_list) =>
               /\ transition_list # <<>>
               /\ transition_list[Len(transition_list)] # CLOSED

\* An eligible list whose bounce is the pair before the final one.
C27_Witness ==
    /\ fpc = "counted"
    /\ transition_list = <<"new", "test", "open", "closed">>
    /\ count = 1

\* C29 as claimed: the bounce count is at most the number of entries the
\* SLA check counts (those equal to "open") and at most half the length, so
\* a bounced defect has at least one counted "open", whatever the letter
\* case of the canonical state names.
C29_CountAtMostCountedOpens ==
    fpc = "counted" =>
        /\ count <= ListCount(transition_list, OPEN)
        /\ count <= Len(transition_list) \div 2
        /\ count > 0 => ListCount(transition_list, OPEN) >= 1

\* ---- null labels, the two alias tables, shared mapping (SpecDefect)

\* C22 as claimed: a status entry whose label is null or the empty string
\* is treated as unmapped under every mapping: the timeline is the one of
\* the log without the entry, so the entry appends no event and is in none
\* of the three sequences.
C22_NullOrEmptyLabelNeverAppended ==
    dpc = "parsed" =>
        \A i \in 1..Len(bug_entry.log) :
            ( /\ StatusField(bug_entry.log[i])
              /\ bug_entry.log[i].to \in {None, ""} ) =>
                parse_change_log(mapping, bug_entry.created,
                                 RemoveAt(bug_entry.log, i)).value = parsed

\* C23 as claimed: the alias table that fills State.standard and the
\* reverse table that builds the canonical list agree for every mapping and
\* every timeline: the canonical list has the timeline's length and its
\* entry at each index, index 0 included, is the standard field of the
\* event at that index.
C23_CanonicalEqualsStandard ==
    dpc = "parsed" =>
        /\ Len(parsed.summary) = Len(parsed.states)
        /\ \A i \in 1..Len(parsed.states) :
               parsed.summary[i] = parsed.states[i].standard

C25_MissingLogReturnsSeedOnly ==
    (change_log # "histories" /\ ppc # "seed") =>
        /\ ppc # "raised"
        /\ ppc \in {"returned", "built"} =>
               LET reduced == states_unique_summary(parsed.summary) IN
               /\ parsed.states = <<SeedEvent>>
               /\ defect_bounce_count(reduced) = 0
               /\ mapping.order[1] # CLOSED =>
                      (reduced = <<>> \/ reduced[Len(reduced)] # CLOSED)

\* C28: every event the scan appended has a label of the alias table and a
\* non-null canonical value, so the canonical list can hold a null at
\* index 0 only, and the reduced canonical list of the Bug holds none.
C28_ReducedCanonicalHasNoNull ==
    ppc \in {"returned", "built"} =>
        /\ \A k \in 2..Len(parsed.states) :
               /\ parsed.states[k].actual \in DOMAIN Table
               /\ parsed.states[k].standard # None
               /\ parsed.summary[k] # None
        /\ None \notin Range(states_unique_summary(parsed.summary))
        /\ ppc = "built" =>
               None \notin Range(states_unique_summary(bug.summary))

\* A Bug whose canonical list starts with a null (order[0] is not its own
\* alias) followed by two mapped changes; the reduction dropped the null.
C28_Witness ==
    /\ ppc = "built"
    /\ mapping = YamlFile(CreatedAliasFile)
    /\ bug.summary = <<None, "open", "test">>
    /\ states_unique_summary(bug.summary) = <<"open", "test">>

\* ---- the projects of a pillar and the interval end (SpecMain)

\* The keys of the queried data, in insertion order.
DataKeys == [i \in 1..Len(defects) |-> defects[i].project]

\* C26: once get_jira_data has returned, the queried data has exactly the
\* configured projects as keys, each with a list of defects that is empty
\* when its query failed or returned no issue; once find_bounces has
\* returned, the bounced dict and the summary have exactly these keys, and
\* a project with an empty list has total 0, bounced 0 and no violation.
C26_EveryConfiguredProjectIsKey ==
    mpc \in {"analyse", "write"} =>
        /\ DataKeys = Projects
        /\ mpc = "write" =>
               /\ DOMAIN summary = Range(Projects)
               /\ DOMAIN bounced = Range(Projects)
               /\ \A i \in 1..Len(defects) :
                      defects[i].results = <<>> =>
                          /\ summary[defects[i].project] = NewSummary
                          /\ bounced[defects[i].project] = <<>>

\* The first project's query returned nothing, the second's one bounced
\* defect that was counted.
C26_Witness ==
    /\ mpc = "write"
    /\ defects[1].results = <<>>
    /\ summary[Projects[1]] = NewSummary
    /\ Len(defects[2].results) = 1
    /\ summary[Projects[2]].total = 1
    /\ bounced[Projects[2]] = << <<Projects[2], 1>> >>

\* The interval with its end date replaced.
WithEnd(ds, end) == [ds EXCEPT ![2] = end]

\* Any end date of the interval, a malformed one included.
EndDates == {MalformedDate} \cup {DateString(e) : e \in Times}

\* The defects of the queried data that end in "closed" and whose latest
\* event is later than the interval end.
ClosedAfterEnd ==
    {d \in UNION {Range(defects[i].results) : i \in 1..Len(defects)} :
        /\ ~NotClosed(d)
        /\ ValidStart
        /\ d.last_timestamp >= dates[1].day
        /\ d.last_timestamp > dates[2].day}

=============================================================================
